---- MODULE Spec2Model ----
(***************************************************************************)
(* Structured-content-to-slide-deck pipeline of PPT_Generator:             *)
(*   realtyai/core/llm_handler.py   response extractor, schema validators  *)
(*   realtyai/ppt/pptx_generator.py bullet extractor, deck assembler       *)
(*   realtyai/ppt/slide_templates.py theme layouts                         *)
(*   realtyai/core/search_engine.py search with its provider               *)
(*   main.py                        the run: search, generate, build, save *)
(*                                                                         *)
(* Text is a sequence of one-character strings where the code scans        *)
(* characters, and a TLA+ string where the code only compares, tests for   *)
(* emptiness or concatenates.  A JSON value the code tests with isinstance *)
(* carries a tag t ("dict", "list", "str", "num").  A Python dict is a     *)
(* function whose DOMAIN is its set of keys.  Indices are Python's         *)
(* (0-based) in the operators translated from code that computes indices.  *)
(***************************************************************************)
EXTENDS Integers, Sequences, FiniteSets, TLC

VARIABLES
    raw,             \* extractor: the text handed to _extract_json_from_response
    extracted,       \* extractor: what it returned
    epc,             \* extractor: "start" | "done"
    payload,         \* validator: the decoded outline payload
    verdict,         \* validator: "True" | "False" | "TypeError" ("" before the call)
    vpc,             \* validator: "start" | "done"
    slide_data,      \* bullet extractor: the slide descriptor
    bullets,         \* bullet extractor: the returned list
    bpc,             \* bullet extractor: "start" | "done" | "rendered"
    text_frame,      \* bullet extractor: the paragraphs _add_bullet_points left in the body
    presentation,    \* builder: the slides of the backend presentation, in order
    slide_count,     \* builder: self.slide_count
    raised,          \* builder: the last add_slide call raised
    fault,           \* builder: what the backend did in the last call
    last_slide,      \* builder: the slide_data of the last add_slide call
    calls,           \* builder: number of add_slide calls made so far
    written,         \* builder: the decks presentation.save has written, in order
    pc,              \* run: "search" | "outline" | "enhance" | "build" | "adding" |
                     \*      "save" | "done" | "exit"
    slides,          \* run: the --slides option
    provider,        \* run: what the search provider did ("" before the search)
    search_content,  \* run: the search results handed to the generator
    presentation_outline,  \* run: the outline in use (generated or fallback)
    enhanced_slides, \* run: the slide descriptors prepared for the builder
    queue,           \* run: the descriptors the build loop has yet to add
    path,            \* run: "none" | "normal" | "fallback"
    exit_code,       \* run: -1 while running, 0 on success, 1 on a fatal error
    save_calls,      \* run: number of builder.save calls
    persisted,       \* run: the backend wrote the file
    search_calls,    \* run: number of search_engine.search calls
    llm_calls,       \* run: number of generate_content calls
    operation,       \* handler: the LLMHandler method called
    response,        \* handler: what client.generate_content does in the call
    returned,        \* handler: what the method gave its caller ("" before the call)
    hpc,             \* handler: "start" | "done"
    theme,           \* theme: the Theme object (colors, fonts, layouts)
    issued,          \* theme: per request, what its first call gave and the Theme it left
    resolved,        \* theme: the last request and what it gave (<<>> before any call)
    resolves,        \* theme: number of calls made on the Theme
    building,        \* backend trace: the descriptor of the slide under construction
    ops,             \* backend trace: the operations the backend has seen for it, in order
    pending,         \* backend trace: the operations the routine has yet to issue
    spc              \* backend trace: "building" | "done" | "raised"

extVars == <<raw, extracted, epc>>
valVars == <<payload, verdict, vpc>>
bulVars == <<slide_data, bullets, bpc, text_frame>>
bldVars == <<presentation, slide_count, raised, fault, last_slide, calls, written>>
runVars == <<pc, slides, provider, search_content, presentation_outline, enhanced_slides, queue,
             path, exit_code, save_calls, persisted, search_calls, llm_calls>>
hdlVars == <<operation, response, returned, hpc>>
thmVars == <<theme, issued, resolved, resolves>>
opsVars == <<building, ops, pending, spc>>
vars == <<raw, extracted, epc, payload, verdict, vpc, slide_data, bullets, bpc, text_frame,
          presentation, slide_count, raised, fault, last_slide, calls, written,
          pc, slides, provider, search_content, presentation_outline, enhanced_slides, queue,
          path, exit_code, save_calls, persisted, search_calls, llm_calls,
          operation, response, returned, hpc, theme, issued, resolved, resolves,
          building, ops, pending, spc>>

\* the components a specification does not exercise stay idle
ExtIdle == raw = <<>> /\ extracted = <<>> /\ epc = "idle"
ValIdle == payload = <<>> /\ verdict = "" /\ vpc = "idle"
BulIdle == slide_data = <<>> /\ bullets = <<>> /\ bpc = "idle" /\ text_frame = <<>>
BldIdle ==
    /\ presentation = <<>> /\ slide_count = 0 /\ raised = FALSE
    /\ fault = "none" /\ last_slide = <<>> /\ calls = 0 /\ written = <<>>
RunIdle ==
    /\ pc = "idle" /\ slides = 0 /\ provider = "" /\ search_content = <<>>
    /\ presentation_outline = <<>> /\ enhanced_slides = <<>> /\ queue = <<>>
    /\ path = "none" /\ exit_code = -1 /\ save_calls = 0 /\ persisted = FALSE
    /\ search_calls = 0 /\ llm_calls = 0
HdlIdle == operation = "" /\ response = <<>> /\ returned = "" /\ hpc = "idle"
ThmIdle == theme = <<>> /\ issued = <<>> /\ resolved = <<>> /\ resolves = 0
OpsIdle == building = <<>> /\ ops = <<>> /\ pending = <<>> /\ spc = "idle"

(***************************************************************************)
(* Bounds                                                                  *)
(***************************************************************************)
MaxLen == 6          \* longest raw text given to the extractor
MaxSlides == 2       \* longest slides list of a payload given to the validator
MaxBullets == 2      \* longest bullet_points list given to the bullet extractor
MaxCalls == 2        \* add_slide calls and files written on one builder on its own
MaxOutline == 3      \* longest slides list of a generated outline
MaxResults == 2      \* most search results returned
MaxSlidesOpt == 3    \* largest --slides option

(***************************************************************************)
(* Response extractor (llm_handler.py)                                     *)
(***************************************************************************)
Chars == {"{", "}", "x"}

RECURSIVE TextsUpTo(_)
TextsUpTo(n) ==
    IF n = 0 THEN {<<>>}
    ELSE LET shorter == TextsUpTo(n - 1)
         IN  shorter \cup {Append(s, c) : s \in {t \in shorter : Len(t) = n - 1}, c \in Chars}

\* content[a:b] of Python, for 0 <= a and 0 <= b
Slice(content, a, b) ==
    IF b <= a THEN <<>>
    ELSE SubSeq(content, a + 1, IF b < Len(content) THEN b ELSE Len(content))

\* content.find(ch): 0-based index of the first occurrence, -1 when there is none
Find(content, ch) ==
    IF \E i \in 1..Len(content) : content[i] = ch
    THEN (CHOOSE i \in 1..Len(content) :
              content[i] = ch /\ \A j \in 1..(i - 1) : content[j] # ch) - 1
    ELSE -1

\* the for loop of _extract_json_from_response, from 0-based position i with
\* the running brace_count; yields end_idx (start_idx when the loop never breaks)
RECURSIVE ScanEnd(_, _, _, _)
ScanEnd(content, i, brace_count, start_idx) ==
    IF i >= Len(content) THEN start_idx
    ELSE LET char == content[i + 1]
             count == IF char = "{" THEN brace_count + 1
                      ELSE IF char = "}" THEN brace_count - 1
                      ELSE brace_count
         IN  IF char = "}" /\ count = 0 THEN i + 1
             ELSE ScanEnd(content, i + 1, count, start_idx)

\* mutant: the object is taken to end at the first closing brace
ExtractToFirstClose(content) ==
    LET start_idx == Find(content, "{")
    IN  IF start_idx = -1 THEN content
        ELSE LET rest == Slice(content, start_idx, Len(content))
                 close == Find(rest, "}")
             IN  IF close = -1 THEN <<>>
                 ELSE Slice(content, start_idx, start_idx + close + 1)

extract_json_from_response(content) ==
    LET start_idx == Find(content, "{")
    IN  IF start_idx = -1 THEN content
        ELSE Slice(content, start_idx, ScanEnd(content, start_idx, 0, start_idx))

ExtInit ==
    /\ raw \in TextsUpTo(MaxLen)
    /\ extracted = <<>>
    /\ epc = "start"
    /\ ValIdle /\ BulIdle /\ BldIdle /\ RunIdle /\ HdlIdle /\ ThmIdle /\ OpsIdle

Extract ==
    /\ epc = "start"
    /\ extracted' = extract_json_from_response(raw)
    /\ epc' = "done"
    /\ UNCHANGED <<raw, valVars, hdlVars, thmVars, opsVars, bulVars, bldVars, runVars>>

ExtNext == Extract

SpecExtract == ExtInit /\ [][ExtNext]_vars

(***************************************************************************)
(* Claims about the response extractor                                     *)
(***************************************************************************)
\* nesting depth after the first n characters of s, counted from scratch
Depth(s, n) ==
    Cardinality({i \in 1..n : s[i] = "{"}) - Cardinality({i \in 1..n : s[i] = "}"})

NoBrace(s) == \A i \in 1..Len(s) : s[i] \notin {"{", "}"}

\* s is brace-balanced and opens with a brace
BalancedObject(s) ==
    /\ Len(s) > 0
    /\ s[1] = "{"
    /\ \A n \in 1..Len(s) : Depth(s, n) >= 0
    /\ Depth(s, Len(s)) = 0

\* the prefix of s that ends where the depth first returns to zero
MinimalObject(s) ==
    SubSeq(s, 1, CHOOSE n \in 1..Len(s) :
                     Depth(s, n) = 0 /\ \A m \in 1..(n - 1) : Depth(s, m) > 0)

\* raw = prefix \o object \o suffix with brace-free prefix and suffix, the
\* object being raw[a..b]
Framed(a, b) ==
    /\ NoBrace(SubSeq(raw, 1, a - 1))
    /\ NoBrace(SubSeq(raw, b + 1, Len(raw)))
    /\ BalancedObject(SubSeq(raw, a, b))

\* C1: for a raw text made of a brace-balanced object framed by brace-free
\* text, the extractor returns exactly the substring from the first opening
\* brace to the closing brace where the depth first returns to zero.
C1_MinimalBalanced ==
    epc = "done" =>
        \A a \in 1..Len(raw) : \A b \in a..Len(raw) :
            Framed(a, b) => extracted = MinimalObject(SubSeq(raw, a, b))

\* a nested object with leading and trailing text has been extracted
C1_Witness ==
    /\ epc = "done"
    /\ raw = <<"x", "{", "{", "}", "}", "x">>
    /\ extracted = <<"{", "{", "}", "}">>

(***************************************************************************)
(* Schema validator for outlines (llm_handler.py)                          *)
(***************************************************************************)
required_keys == <<"title", "slides">>
slide_keys == <<"slide_number", "title", "type">>

Range(seq) == {seq[i] : i \in 1..Len(seq)}

RECURSIVE SeqsUpTo(_, _)
SeqsUpTo(S, n) ==
    IF n = 0 THEN {<<>>}
    ELSE LET shorter == SeqsUpTo(S, n - 1)
         IN  shorter \cup {Append(s, x) : s \in {t \in shorter : Len(t) = n - 1}, x \in S}

\* the dicts over the keys K, every key optional, with values from V
DictsOver(K, V) == UNION {[D -> V] : D \in SUBSET K}

\* Python's `key in x`: a key of a dict, an element of a list, a substring of a
\* str (a str is kept as the set of the key names that occur in it), and a
\* TypeError for a number
KeyIn(key, x) ==
    CASE x.t = "dict" -> IF key \in DOMAIN x.d THEN "True" ELSE "False"
      [] x.t = "list" -> IF key \in Range(x.v) THEN "True" ELSE "False"
      [] x.t = "str"  -> IF key \in x.has THEN "True" ELSE "False"
      [] OTHER        -> "TypeError"

\* all(key in x for key in keys), evaluated left to right, from key number i
RECURSIVE AllKeysIn(_, _, _)
AllKeysIn(keys, x, i) ==
    IF i > Len(keys) THEN "True"
    ELSE LET r == KeyIn(keys[i], x)
         IN  IF r = "True" THEN AllKeysIn(keys, x, i + 1) ELSE r

\* the loop over outline["slides"], from slide number i
RECURSIVE ValidateSlides(_, _)
ValidateSlides(slide_list, i) ==
    IF i > Len(slide_list) THEN "True"
    ELSE LET r == AllKeysIn(slide_keys, slide_list[i], 1)
         IN  IF r = "True" THEN ValidateSlides(slide_list, i + 1) ELSE r

\* mutant: a value that is not an object passes once the keys are found in it
ValidateKeysOnly(keys, x) == AllKeysIn(keys, x, 1)

\* either validator on a decoded value x that is not an object: the keys are
\* looked for with `in`, and when all are found x[key] raises TypeError
validate_non_dict(keys, x) ==
    LET r == AllKeysIn(keys, x, 1)
    IN  IF r = "True" THEN "TypeError" ELSE r

validate_outline_structure(outline) ==
    IF ~(\A i \in 1..Len(required_keys) : required_keys[i] \in DOMAIN outline)
    THEN "False"
    ELSE IF outline["slides"].t # "list" \/ Len(outline["slides"].v) = 0 THEN "False"
    ELSE ValidateSlides(outline["slides"].v, 1)

\* the elements a decoded slides list is drawn from: objects with any of the
\* required keys, lists and strings that do or do not mention them, a number
ValSlideElems ==
    {[t |-> "dict", d |-> d] : d \in DictsOver(Range(slide_keys), {"v"})}
    \cup {[t |-> "list", v |-> slide_keys], [t |-> "list", v |-> <<"title">>]}
    \cup {[t |-> "str", has |-> Range(slide_keys)], [t |-> "str", has |-> {}]}
    \cup {[t |-> "num", v |-> 1]}

ValSlidesValues ==
    {[t |-> "list", v |-> v] : v \in SeqsUpTo(ValSlideElems, MaxSlides)}
    \cup {[t |-> "str", has |-> {}]}

ValPayloads ==
    {[k \in {"title", "slides"} |-> IF k = "title" THEN [t |-> "str", has |-> {}] ELSE sl] :
        sl \in ValSlidesValues}
    \cup {[k \in {"slides"} |-> sl] : sl \in ValSlidesValues}
    \cup {[k \in {"title"} |-> [t |-> "str", has |-> {}]], [k \in {} |-> 0]}

ValInit ==
    /\ payload \in ValPayloads
    /\ verdict = ""
    /\ vpc = "start"
    /\ ExtIdle /\ BulIdle /\ BldIdle /\ RunIdle /\ HdlIdle /\ ThmIdle /\ OpsIdle

Validate ==
    /\ vpc = "start"
    /\ verdict' = validate_outline_structure(payload)
    /\ vpc' = "done"
    /\ UNCHANGED <<payload, extVars, hdlVars, thmVars, opsVars, bulVars, bldVars, runVars>>

ValNext == Validate

SpecValidate == ValInit /\ [][ValNext]_vars

(***************************************************************************)
(* Claims about the outline validator                                      *)
(***************************************************************************)
\* the outline contract of the data model, stated on the payload alone
HasSlidesList(p) == "slides" \in DOMAIN p /\ p["slides"].t = "list"

OutlineValid(p) ==
    /\ {"title", "slides"} \subseteq DOMAIN p
    /\ p["slides"].t = "list"
    /\ Len(p["slides"].v) > 0
    /\ \A i \in 1..Len(p["slides"].v) :
           /\ p["slides"].v[i].t = "dict"
           /\ {"slide_number", "title", "type"} \subseteq DOMAIN p["slides"].v[i].d

\* C2: the validator returns true if and only if the payload has the keys
\* title and slides, slides is a non-empty list, and every element of slides
\* has the keys slide_number, title and type.
C2_ValidIffWellFormed ==
    vpc = "done" => (verdict = "True" <=> OutlineValid(payload))

\* C2, the part the code keeps: a payload missing slides, or with an empty
\* slides list, is never accepted, and a well-formed outline is accepted
C2_RejectsMissingOrEmpty ==
    vpc = "done" =>
        /\ ("slides" \notin DOMAIN payload => verdict = "False")
        /\ (HasSlidesList(payload) /\ Len(payload["slides"].v) = 0 => verdict = "False")
        /\ (OutlineValid(payload) => verdict = "True")

(***************************************************************************)
(* Bullet extractor (pptx_generator.py)                                    *)
(***************************************************************************)
\* str(x) and f"{x}" for a scalar list element
Str(x) == IF x.t = "str" THEN x.v ELSE ToString(x.v)

\* d.get(key, '')
GetOrEmpty(d, key) == IF key \in DOMAIN d THEN d[key] ELSE ""

\* one iteration of the loop over slide_data['bullet_points']: what it appends
NormalizeEntry(bullet) ==
    IF bullet.t = "dict"
    THEN LET point == GetOrEmpty(bullet.d, "point")
             details == GetOrEmpty(bullet.d, "details")
         IN  IF point # ""
             THEN <<IF details # "" /\ details # point
                    THEN point \o ": " \o details
                    ELSE point>>
             ELSE <<>>
    ELSE IF bullet.t = "str" THEN <<bullet.v>>
    ELSE <<>>

RECURSIVE NormalizeAll(_, _)
NormalizeAll(entries, i) ==
    IF i > Len(entries) THEN <<>>
    ELSE NormalizeEntry(entries[i]) \o NormalizeAll(entries, i + 1)

\* [prefix + str(x) for x in d[key]] when key is in d and d[key] is a list
ListOf(d, key, prefix) ==
    IF key \in DOMAIN d /\ d[key].t = "list"
    THEN [i \in 1..Len(d[key].v) |-> prefix \o Str(d[key].v[i])]
    ELSE <<>>

\* the branch taken when 'content' is in slide_data
ContentBullets(content) ==
    IF content.t = "dict"
    THEN ListOf(content.d, "key_points", "")
         \o ListOf(content.d, "themes", "Key theme: ")
         \o ListOf(content.d, "supporting_data", "Supporting fact: ")
    ELSE <<>>

\* the soft target: above it the method only writes a log line
max_bullets == 5

\* mutant: the list is cut to the soft target
ExtractBulletPointsTrimmed(sd) ==
    LET first ==
            IF "bullet_points" \in DOMAIN sd
            THEN IF sd["bullet_points"].t = "list"
                 THEN NormalizeAll(sd["bullet_points"].v, 1)
                 ELSE <<>>
            ELSE IF "content" \in DOMAIN sd THEN ContentBullets(sd["content"])
            ELSE <<>>
        all == IF first = <<>> /\ "key_points" \in DOMAIN sd
               THEN ListOf(sd, "key_points", "")
               ELSE first
    IN  IF Len(all) > max_bullets THEN SubSeq(all, 1, max_bullets) ELSE all

extract_bullet_points(sd) ==
    LET first ==
            IF "bullet_points" \in DOMAIN sd
            THEN IF sd["bullet_points"].t = "list"
                 THEN NormalizeAll(sd["bullet_points"].v, 1)
                 ELSE <<>>
            ELSE IF "content" \in DOMAIN sd THEN ContentBullets(sd["content"])
            ELSE <<>>
    IN  IF first = <<>> /\ "key_points" \in DOMAIN sd
        THEN ListOf(sd, "key_points", "")
        ELSE first

\* str.strip() on the bullet texts of the model
Strip(text) ==
    IF text \in {" ", "  "} THEN ""
    ELSE IF text = " S " THEN "S"
    ELSE text

\* _add_bullet_points: the paragraphs of the body after the loop; clear()
\* leaves one empty paragraph, entry 0 writes into it, later entries append
RECURSIVE AddBulletPoints(_, _, _)
AddBulletPoints(paragraphs, bullet_points, i) ==
    IF i >= Len(bullet_points) THEN paragraphs
    ELSE LET cleaned_text == Strip(bullet_points[i + 1])
         IN  IF cleaned_text = "" THEN AddBulletPoints(paragraphs, bullet_points, i + 1)
             ELSE IF i = 0
             THEN AddBulletPoints([paragraphs EXCEPT ![1] = cleaned_text], bullet_points, i + 1)
             ELSE AddBulletPoints(Append(paragraphs, cleaned_text), bullet_points, i + 1)

\* --- the slide descriptors given to the extractor ---
Absent == [t |-> "absent"]
StrV(s) == [t |-> "str", v |-> s]
ListV(v) == [t |-> "list", v |-> v]

\* a dict from the (key, value) pairs whose value is not Absent
MkDict(keys, vals) ==
    [k \in {keys[i] : i \in {j \in 1..Len(keys) : vals[j] # Absent}} |->
        vals[CHOOSE i \in 1..Len(keys) : keys[i] = k]]

\* structured pairs: point absent, empty or "A"; details absent, "A" or "B"
PairEntries ==
    {[t |-> "dict", d |-> d] :
        d \in {f \in DictsOver({"point", "details"}, {"", "A", "B"}) :
                  /\ ("point" \in DOMAIN f => f["point"] # "B")
                  /\ ("details" \in DOMAIN f => f["details"] # "")}}

BulletEntries == PairEntries \cup {StrV("S"), StrV(" "), [t |-> "num", v |-> 5]}

\* a list longer than the soft target
LongList == ListV([i \in 1..(max_bullets + 1) |-> StrV("B" \o ToString(i))])

BulletPointsValues ==
    {ListV(v) : v \in SeqsUpTo(BulletEntries, MaxBullets)} \cup {LongList, StrV("S"), Absent}

ContentValues ==
    {[t |-> "dict", d |-> MkDict(<<"key_points", "themes", "supporting_data">>, <<kp, th, sd>>)] :
        kp \in {Absent, ListV(<<>>), ListV(<<StrV("C")>>)},
        th \in {Absent, ListV(<<StrV("T")>>)},
        sd \in {Absent, ListV(<<[t |-> "num", v |-> 7]>>)}}
    \cup {StrV("snippet"), Absent}

KeyPointsValues ==
    {Absent, ListV(<<>>), ListV(<<StrV("K")>>), ListV(<<StrV("K"), [t |-> "num", v |-> 2]>>),
     StrV("K"), LongList}

SlideDatas ==
    {MkDict(<<"bullet_points", "content", "key_points">>, <<bp, ct, kp>>) :
        bp \in BulletPointsValues, ct \in ContentValues, kp \in KeyPointsValues}

BulInit ==
    /\ slide_data \in SlideDatas
    /\ bullets = <<>>
    /\ bpc = "start"
    /\ text_frame = <<>>
    /\ ExtIdle /\ ValIdle /\ BldIdle /\ RunIdle /\ HdlIdle /\ ThmIdle /\ OpsIdle

ExtractBullets ==
    /\ bpc = "start"
    /\ bullets' = extract_bullet_points(slide_data)
    /\ bpc' = "done"
    /\ UNCHANGED <<slide_data, text_frame, extVars, valVars, hdlVars, thmVars, opsVars, bldVars, runVars>>

\* _add_content_slide hands a non-empty list to _add_bullet_points
Render ==
    /\ bpc = "done"
    /\ bullets # <<>>
    /\ text_frame' = AddBulletPoints(<<"">>, bullets, 0)
    /\ bpc' = "rendered"
    /\ UNCHANGED <<slide_data, bullets, extVars, valVars, hdlVars, thmVars, opsVars, bldVars, runVars>>

BulNext == ExtractBullets \/ Render

SpecBullets == BulInit /\ [][BulNext]_vars

(***************************************************************************)
(* Claims about the bullet extractor                                       *)
(***************************************************************************)
HasList(d, key) == key \in DOMAIN d /\ d[key].t = "list"
HasNonEmptyList(d, key) == HasList(d, key) /\ Len(d[key].v) > 0

\* the display string of the data model for one BulletPoint: a plain string
\* as it is, a pair as "point: details" when both are present and differ, as
\* "point" alone otherwise
Display(entry) ==
    IF entry.t = "str" THEN entry.v
    ELSE LET point == GetOrEmpty(entry.d, "point")
             details == GetOrEmpty(entry.d, "details")
         IN  IF point # "" /\ details # "" /\ details # point
             THEN point \o ": " \o details
             ELSE point

\* a plain string or a pair {point, details}
IsBulletPoint(entry) ==
    \/ entry.t = "str"
    \/ entry.t = "dict" /\ DOMAIN entry.d = {"point", "details"}

\* C3: when bullet_points and content.key_points are both present and
\* non-empty, the output is the normalized bullet_points only: nothing of
\* content or of the top-level key_points appears in it.
C3_BulletPointsOnly ==
    (/\ bpc = "done"
     /\ HasNonEmptyList(slide_data, "bullet_points")
     /\ \A i \in 1..Len(slide_data["bullet_points"].v) :
            IsBulletPoint(slide_data["bullet_points"].v[i])
     /\ "content" \in DOMAIN slide_data
     /\ slide_data["content"].t = "dict"
     /\ HasNonEmptyList(slide_data["content"].d, "key_points"))
    => bullets = NormalizeAll(slide_data["bullet_points"].v, 1)

\* the three sources in precedence order, each empty when absent or ill-typed
Source1(sd) == IF HasList(sd, "bullet_points") THEN NormalizeAll(sd["bullet_points"].v, 1) ELSE <<>>
Source2(sd) == IF "content" \in DOMAIN sd THEN ContentBullets(sd["content"]) ELSE <<>>
Source3(sd) == ListOf(sd, "key_points", "")

HighestNonEmpty(sd) ==
    IF Source1(sd) # <<>> THEN Source1(sd)
    ELSE IF Source2(sd) # <<>> THEN Source2(sd)
    ELSE Source3(sd)

\* C4: the output is drawn from exactly one source, the highest-precedence
\* source that is non-empty in the order bullet_points > content >
\* key_points; a present-but-empty higher source does not block the next.
C4_HighestNonEmptySource ==
    bpc = "done" => bullets = HighestNonEmpty(slide_data)

\* C5: every entry of bullet_points yields exactly one display string, in
\* input order: a plain string unchanged, a pair as "point: details" when
\* both are present and different and as "point" alone otherwise.
C5_OneStringPerEntry ==
    (/\ bpc = "done"
     /\ HasList(slide_data, "bullet_points")
     /\ \A i \in 1..Len(slide_data["bullet_points"].v) :
            IsBulletPoint(slide_data["bullet_points"].v[i])
     /\ "key_points" \notin DOMAIN slide_data)
    => /\ Len(bullets) = Len(slide_data["bullet_points"].v)
       /\ \A i \in 1..Len(bullets) : bullets[i] = Display(slide_data["bullet_points"].v[i])

RECURSIVE NonBlank(_)
NonBlank(entries) ==
    IF entries = <<>> THEN <<>>
    ELSE IF Strip(Head(entries)) = "" THEN NonBlank(Tail(entries))
    ELSE <<Strip(Head(entries))>> \o NonBlank(Tail(entries))

\* C18: blank entries survive the extraction and are dropped at render
\* time: a blank string of bullet_points is in the extractor's output, and
\* the body rendered from a bullet list holds one paragraph per non-blank
\* entry, in order, and no empty paragraph, wherever the blank entries sit
\* (a list of nothing but blanks leaves the one empty paragraph of a
\* cleared text frame).
C18_BlankDroppedAtRender ==
    /\ (/\ bpc \in {"done", "rendered"}
        /\ HasNonEmptyList(slide_data, "bullet_points")
        /\ \A i \in 1..Len(slide_data["bullet_points"].v) :
               slide_data["bullet_points"].v[i].t = "str")
       => bullets = [i \in 1..Len(slide_data["bullet_points"].v) |->
                        slide_data["bullet_points"].v[i].v]
    /\ bpc = "rendered"
       => text_frame = IF NonBlank(bullets) = <<>> THEN <<"">> ELSE NonBlank(bullets)

(***************************************************************************)
(* Theme layouts (slide_templates.py) and deck assembler                   *)
(* (pptx_generator.py)                                                     *)
(***************************************************************************)
SlideLayout(id, title_idx, content_idx) ==
    [layout_id |-> id, title_placeholder_idx |-> title_idx,
     content_placeholder_idx |-> content_idx]

layouts ==
    [title          |-> SlideLayout(0, 0, 1),
     content        |-> SlideLayout(1, 0, 1),
     section_header |-> SlideLayout(2, 0, -1),
     two_content    |-> SlideLayout(3, 0, 1),
     comparison     |-> SlideLayout(4, 0, 1),
     blank          |-> SlideLayout(6, -1, -1)]

\* Theme.get_layout: the layout, or ValueError for a name that is not a layout
get_layout(layout_type) ==
    IF layout_type \in DOMAIN layouts
    THEN [ok |-> TRUE, layout |-> layouts[layout_type]]
    ELSE [ok |-> FALSE, error |-> "ValueError"]

\* d.get(key, default)
Get(d, key, default) == IF key \in DOMAIN d THEN d[key] ELSE default

\* _add_title_slide: the subtitle text
TitleSubtitle(sd) ==
    LET subtitle == Get(sd, "subtitle", "")
    IN  IF subtitle = "" /\ "content" \in DOMAIN sd
        THEN IF sd["content"].t = "dict" THEN Get(sd["content"].d, "subtitle", "")
             ELSE IF sd["content"].t = "str" THEN sd["content"].v
             ELSE subtitle
        ELSE subtitle

\* the slide each construction routine leaves in the backend presentation
add_title_slide(sd) ==
    [routine |-> "title", layout_id |-> get_layout("title").layout.layout_id,
     title |-> Get(sd, "title", "Presentation Title"),
     body |-> <<TitleSubtitle(sd)>>, complete |-> TRUE]

add_content_slide(sd) ==
    LET bullet_points == extract_bullet_points(sd)
    IN  [routine |-> "content", layout_id |-> get_layout("content").layout.layout_id,
         title |-> Get(sd, "title", "Content"),
         body |-> IF bullet_points # <<>>
                  THEN AddBulletPoints(<<"">>, bullet_points, 0)
                  ELSE <<"general content">>,
         complete |-> TRUE]

add_section_header_slide(sd) ==
    [routine |-> "section_header",
     layout_id |-> get_layout("section_header").layout.layout_id,
     title |-> Get(sd, "title", "Section"), body |-> <<>>, complete |-> TRUE]

add_conclusion_slide(sd) == add_content_slide(sd)

\* the dispatch of add_slide on the type tag
Construct(sd) ==
    LET slide_type == Get(sd, "type", "content")
    IN  IF slide_type = "title" THEN add_title_slide(sd)
        ELSE IF slide_type = "content" THEN add_content_slide(sd)
        ELSE IF slide_type = "section_header" THEN add_section_header_slide(sd)
        ELSE IF slide_type = "conclusion" THEN add_conclusion_slide(sd)
        ELSE add_content_slide(sd)

\* The backend either serves the call ("none"), fails before the slide is in
\* the presentation ("create": slide_layouts[...] or slides.add_slide raises)
\* or fails after it ("fill": a placeholder, text or formatting operation
\* raises, the slide staying in the presentation).
Faults == {"none", "create", "fill"}

Outcome(p, n, r) == [presentation |-> p, slide_count |-> n, raised |-> r]

\* mutant: the counter is bumped before the slide is constructed
AddSlideCountFirst(sd, f) ==
    IF f = "create" THEN Outcome(presentation, slide_count + 1, TRUE)
    ELSE IF f = "fill"
    THEN Outcome(Append(presentation, [Construct(sd) EXCEPT !.complete = FALSE]),
                 slide_count + 1, TRUE)
    ELSE Outcome(Append(presentation, Construct(sd)), slide_count + 1, FALSE)

\* mutant: an unrecognized type tag is resolved through Theme.get_layout,
\* whose ValueError propagates
AddSlideResolvingTag(sd, f) ==
    IF ~get_layout(IF Get(sd, "type", "content") = "conclusion" THEN "content"
                   ELSE Get(sd, "type", "content")).ok
    THEN Outcome(presentation, slide_count, TRUE)
    ELSE IF f = "create" THEN Outcome(presentation, slide_count, TRUE)
    ELSE IF f = "fill"
    THEN Outcome(Append(presentation, [Construct(sd) EXCEPT !.complete = FALSE]),
                 slide_count, TRUE)
    ELSE Outcome(Append(presentation, Construct(sd)), slide_count + 1, FALSE)

\* add_slide: the builder after the call, and whether the call raised
add_slide(sd, f) ==
    IF f = "create" THEN Outcome(presentation, slide_count, TRUE)
    ELSE IF f = "fill"
    THEN Outcome(Append(presentation, [Construct(sd) EXCEPT !.complete = FALSE]),
                 slide_count, TRUE)
    ELSE Outcome(Append(presentation, Construct(sd)), slide_count + 1, FALSE)

\* get_slide_count
get_slide_count == slide_count

\* add_slide on a builder whose backend presentation is p and whose counter
\* is n (the builder between two calls of add_bulk_slides' loop)
AddSlideTo(p, n, sd, f) ==
    IF f = "create" THEN Outcome(p, n, TRUE)
    ELSE IF f = "fill"
    THEN Outcome(Append(p, [Construct(sd) EXCEPT !.complete = FALSE]), n, TRUE)
    ELSE Outcome(Append(p, Construct(sd)), n + 1, FALSE)

\* add_bulk_slides: add_slide for each element in turn; a raise leaves the
\* loop.  slides_data pairs each descriptor with what the backend does in
\* its call; made is the number of add_slide calls made.
RECURSIVE add_bulk_slides(_, _, _, _)
add_bulk_slides(p, n, slides_data, i) ==
    IF i > Len(slides_data)
    THEN [presentation |-> p, slide_count |-> n, raised |-> FALSE, made |-> i - 1]
    ELSE LET out == AddSlideTo(p, n, slides_data[i].sd, slides_data[i].f)
         IN  IF out.raised
             THEN [presentation |-> out.presentation, slide_count |-> out.slide_count,
                   raised |-> TRUE, made |-> i]
             ELSE add_bulk_slides(out.presentation, out.slide_count, slides_data, i + 1)

\* add_custom_slide: the descriptor {'type': layout_type, **content}
custom_slide_data(layout_type, content) ==
    [k \in DOMAIN content \cup {"type"} |->
        IF k \in DOMAIN content THEN content[k] ELSE layout_type]

add_custom_slide(layout_type, content, f) ==
    add_slide(custom_slide_data(layout_type, content), f)

\* what can go wrong in a save: "mkdir": making the directory raises,
\* "persist": presentation.save raises
SaveFaults == {"none", "mkdir", "persist"}

\* save: the files written after the call, and whether the call raised; the
\* method looks at no flag of the builder and changes none
save(f) ==
    [written |-> IF f = "none" THEN Append(written, presentation) ELSE written,
     raised |-> f # "none"]

\* the slide descriptors given to a builder on its own
SlideTypes == {"title", "content", "section_header", "conclusion", "timeline",
               "two_content", "comparison", "blank"}

BuilderSlides ==
    {MkDict(<<"type", "title">>, <<ty, ti>>) :
        ty \in {StrV(x) : x \in SlideTypes} \cup {Absent}, ti \in {StrV("T"), Absent}}

\* the descriptor with its type and title as plain strings
Plain(sd) == [k \in DOMAIN sd |-> sd[k].v]

BldInit ==
    /\ presentation = <<>>
    /\ slide_count = 0
    /\ raised = FALSE
    /\ fault = "none"
    /\ last_slide = <<>>
    /\ calls = 0
    /\ written = <<>>
    /\ ExtIdle /\ ValIdle /\ BulIdle /\ RunIdle /\ HdlIdle /\ ThmIdle /\ OpsIdle

AddSlide ==
    /\ calls + Len(written) < MaxCalls
    /\ \E sd \in BuilderSlides, f \in Faults :
        LET out == add_slide(Plain(sd), f)
        IN  /\ presentation' = out.presentation
            /\ slide_count' = out.slide_count
            /\ raised' = out.raised
            /\ fault' = f
            /\ last_slide' = Plain(sd)
    /\ calls' = calls + 1
    /\ UNCHANGED <<written, extVars, valVars, hdlVars, thmVars, opsVars, bulVars, runVars>>

\* builder.save called on the builder, at any point of its life
BuilderSave ==
    /\ calls + Len(written) < MaxCalls
    /\ \E f \in SaveFaults : written' = save(f).written /\ fault' = f
    /\ UNCHANGED <<presentation, slide_count, raised, last_slide, calls,
                   extVars, valVars, hdlVars, thmVars, opsVars, bulVars, runVars>>

\* the descriptors given to add_bulk_slides, each with the backend's conduct
BulkSlides ==
    {[type |-> "title", title |-> "T"], [title |-> "T"], [type |-> "timeline"]}

BulkCalls == {[sd |-> sd, f |-> f] : sd \in BulkSlides, f \in Faults}

AddBulkSlides ==
    /\ \E slides_data \in SeqsUpTo(BulkCalls, MaxCalls - calls - Len(written)) :
        /\ slides_data # <<>>
        /\ LET out == add_bulk_slides(presentation, slide_count, slides_data, 1)
           IN  /\ presentation' = out.presentation
               /\ slide_count' = out.slide_count
               /\ raised' = out.raised
               /\ fault' = slides_data[out.made].f
               /\ last_slide' = slides_data[out.made].sd
               /\ calls' = calls + out.made
    /\ UNCHANGED <<written, extVars, valVars, hdlVars, thmVars, opsVars, bulVars, runVars>>

CustomContents == {[title |-> "T"], [type |-> "content", title |-> "T"]}

AddCustomSlide ==
    /\ calls + Len(written) < MaxCalls
    /\ \E layout_type \in {"title", "blank"}, content \in CustomContents, f \in Faults :
        LET out == add_custom_slide(layout_type, content, f)
        IN  /\ presentation' = out.presentation
            /\ slide_count' = out.slide_count
            /\ raised' = out.raised
            /\ fault' = f
            /\ last_slide' = custom_slide_data(layout_type, content)
    /\ calls' = calls + 1
    /\ UNCHANGED <<written, extVars, valVars, hdlVars, thmVars, opsVars, bulVars, runVars>>

BldNext == AddSlide \/ AddBulkSlides \/ AddCustomSlide \/ BuilderSave

SpecBuilder == BldInit /\ [][BldNext]_vars

(***************************************************************************)
(* Claims about add_slide                                                  *)
(***************************************************************************)
KnownTypes == {"title", "content", "section_header", "conclusion"}

\* the type tag of the last call is absent or not one add_slide dispatches on
UnknownTag(sd) == "type" \notin DOMAIN sd \/ sd["type"] \notin KnownTypes

Last(seq) == seq[Len(seq)]

\* C8: add_slide on a descriptor whose type tag is unrecognized or absent
\* builds the slide with the content layout, does not raise because of the
\* tag (it raises only when the backend fails), and counts the slide.
C8_UnknownTagFallsBack ==
    [][(calls' = calls + 1 /\ UnknownTag(last_slide'))
       => /\ (raised' <=> fault' # "none")
          /\ (fault' = "none"
              => /\ slide_count' = slide_count + 1
                 /\ Len(presentation') = Len(presentation) + 1
                 /\ Last(presentation').routine = "content"
                 /\ Last(presentation').layout_id = layouts["content"].layout_id
                 /\ Last(presentation').complete)]_vars

\* a slide without a type tag, then a "timeline" slide, have been added
C8_Witness ==
    /\ calls = 2
    /\ slide_count = 2
    /\ ~raised
    /\ Get(last_slide, "type", "content") = "timeline"
    /\ presentation[1].title = "Content"
    /\ presentation[2].layout_id = layouts["content"].layout_id

\* C9: for every add_slide call, slide_count grows by exactly 1 when the
\* construction completes, and when it raises the exception reaches the
\* caller and slide_count is unchanged.
C9_CountOnSuccessOnly ==
    [][calls' = calls + 1
       => /\ (fault' = "none" => ~raised' /\ slide_count' = slide_count + 1)
          /\ (fault' # "none" => raised' /\ slide_count' = slide_count)]_vars

\* one call completed and one call raised after its slide reached the backend
C9_Witness ==
    /\ calls = 2
    /\ raised
    /\ fault = "fill"
    /\ slide_count = 1
    /\ Len(presentation) = 2

\* C25: after any sequence of add_slide, add_bulk_slides and add_custom_slide
\* calls on one builder, calls that raised included, get_slide_count() is
\* the number of slides in the backend presentation.
C25_CountMatchesBackend == get_slide_count = Len(presentation)

\* C25, what the counter does count: the slides whose construction completed
C25_CountsCompletedSlides ==
    get_slide_count = Cardinality({i \in 1..Len(presentation) : presentation[i].complete})

\* C11: save persists the deck exactly once and ends the deck's life: once
\* a builder has written its deck, no later add_slide and no later save
\* takes effect on it (the presentation, the slide counter and the files
\* written stay as they are).
C11_SaveIsTerminal ==
    [][written # <<>>
       => /\ presentation' = presentation
          /\ slide_count' = slide_count
          /\ written' = written]_vars

\* the layout a type tag names: its own entry of the theme's table,
\* content's for conclusion and for a tag the table does not hold
NamedLayout(tag) ==
    IF tag = "conclusion" THEN layouts["content"]
    ELSE IF tag \in DOMAIN layouts THEN layouts[tag]
    ELSE layouts["content"]

\* C20: the slide is created from the layout its type tag names: title,
\* content, section_header, two_content, comparison and blank from their
\* own layout, conclusion from content's; get_layout fails for a tag the
\* theme does not hold, and add_slide then falls back to the content
\* layout without raising because of the tag.
C20_LayoutNamedByTag ==
    /\ [](\A tag \in SlideTypes : get_layout(tag).ok <=> tag \in DOMAIN layouts)
    /\ [][(calls' = calls + 1 /\ fault' # "create")
          => /\ Last(presentation').layout_id =
                    NamedLayout(Get(last_slide', "type", "content")).layout_id
             /\ (raised' <=> fault' # "none")]_vars

(***************************************************************************)
(* The run (main.py) with the generator's operations (llm_handler.py)      *)
(***************************************************************************)
topic == "topic"

\* a.update(b) of Python dicts
Update(a, b) == [k \in DOMAIN a \cup DOMAIN b |-> IF k \in DOMAIN b THEN b[k] ELSE a[k]]

\* seq[:k] of Python
PyPrefix(seq, k) ==
    IF k >= 0 THEN SubSeq(seq, 1, IF k < Len(seq) THEN k ELSE Len(seq))
    ELSE SubSeq(seq, 1, IF Len(seq) + k > 0 THEN Len(seq) + k ELSE 0)

\* seq[1:] of Python
PyTail(seq) == IF seq = <<>> THEN <<>> ELSE Tail(seq)

\* the truth value of a list-or-string JSON value
Truthy(x) == IF x.t = "list" THEN x.v # <<>> ELSE TRUE

\* the n results of the search collaborator, as main hands them on
SearchResults(n) ==
    [i \in 1..n |-> [title |-> "R" \o ToString(i), snippet |-> "s" \o ToString(i)]]

validate_slide_content_structure(content) ==
    IF ~({"title", "bullet_points"} \subseteq DOMAIN content) THEN "False"
    ELSE IF content["bullet_points"].t # "list" THEN "False"
    ELSE "True"

\* What the generator answered: its client raised ("raise"), the text held no
\* decodable object ("text"), or the text decoded to the payload p ("json").
\* generate_outline returns the payload only when it validates; every other
\* case leaves it by an exception.
\* mutant: the decoded payload is returned without the validator's verdict
GenerateOutlineUnvalidated(resp) ==
    IF resp.kind = "json" THEN [ok |-> TRUE, value |-> resp.p] ELSE [ok |-> FALSE]

\* ("value": the text decoded to the value x, which is not an object.)
generate_outline(resp) ==
    IF resp.kind = "json" /\ validate_outline_structure(resp.p) = "True"
    THEN [ok |-> TRUE, value |-> resp.p]
    ELSE IF resp.kind = "value" /\ validate_non_dict(required_keys, resp.x) = "True"
    THEN [ok |-> TRUE, value |-> resp.x]
    ELSE [ok |-> FALSE]

\* required_keys of _validate_slide_content_structure
content_keys == <<"title", "bullet_points">>

generate_slide_content(resp) ==
    IF resp.kind = "json" /\ validate_slide_content_structure(resp.p) = "True"
    THEN [ok |-> TRUE, value |-> resp.p]
    ELSE IF resp.kind = "value" /\ validate_non_dict(content_keys, resp.x) = "True"
    THEN [ok |-> TRUE, value |-> resp.x]
    ELSE [ok |-> FALSE]

Elem(d) == [t |-> "dict", d |-> d]
KeyPointsK == ListV(<<StrV("K")>>)

\* the elements of a generated slides list: slides of three type tags, a
\* content slide with key_points, an object without a type tag, a list
RunSlideElems ==
    {Elem([slide_number |-> 1, title |-> "S", type |-> ty]) :
        ty \in {"title", "content", "timeline"}}
    \cup {Elem([slide_number |-> 1, title |-> "S", type |-> "content",
                key_points |-> KeyPointsK]),
          Elem([slide_number |-> 1, title |-> "S"]),
          ListV(slide_keys)}

OutlineResponses ==
    {[kind |-> "raise"], [kind |-> "text"], [kind |-> "json", p |-> [title |-> "O"]]}
    \cup {[kind |-> "json", p |-> [title |-> "O", slides |-> ListV(v)]] :
             v \in SeqsUpTo(RunSlideElems, MaxOutline)}

GeneratedBullets == ListV(<<StrV("B")>>)

SlideContentResponses ==
    {[kind |-> "raise"],
     [kind |-> "json", p |-> [title |-> "G", bullet_points |-> GeneratedBullets]],
     [kind |-> "json", p |-> [title |-> "G", bullet_points |-> GeneratedBullets,
                              type |-> "title"]],
     [kind |-> "json", p |-> [title |-> "G"]]}

\* the except branch of the generation step: the basic outline and one
\* content slide for each of the first slides-1 search results
FallbackOutline ==
    [title |-> topic,
     slides |-> ListV(<<Elem([type |-> "title", title |-> topic,
                              subtitle |-> "Generated Presentation"])>>)]

FallbackSlides(content, n) ==
    LET taken == PyPrefix(content, n - 1)
    IN  [i \in 1..Len(taken) |->
            [type |-> "content",
             title |-> Get(taken[i], "title", "Topic " \o ToString(i)),
             content |-> StrV(Get(taken[i], "snippet", "Content from search results"))]]

\* mutant: a failed generation ends the run, as a failed build or save does
FallbackAborting ==
    /\ UNCHANGED <<presentation_outline, enhanced_slides>>
    /\ path' = "fallback"
    /\ pc' = "exit"

\* the except branch of step 2: the outline and the slides made from the
\* search results replace whatever was generated
Fallback ==
    /\ presentation_outline' = FallbackOutline
    /\ enhanced_slides' = FallbackSlides(search_content, slides)
    /\ path' = "fallback"
    /\ pc' = "build"

\* the descriptor main prepares from an outline entry, before any merge
EnhancedBase(d, i) ==
    LET base == [type |-> Get(d, "type", "content"),
                 title |-> Get(d, "title", "Slide " \o ToString(i)),
                 slide_number |-> Get(d, "slide_number", i)]
    IN  IF Get(d, "type", "None") = "title"
        THEN Update(base, [subtitle |-> Get(d, "subtitle", "A Comprehensive Overview")])
        ELSE base

\* mutant: no outline entry is taken to have key_points, so that the outline
\* is the only thing generated
NeverKeyPoints(d) == FALSE

HasKeyPoints(d) == "key_points" \in DOMAIN d /\ Truthy(d["key_points"])

\* the loop of the build step over enhanced_slides: the descriptors it adds
\* after the title slide
build_queue_all(first_is_title, enhanced) ==
    IF first_is_title THEN PyTail(enhanced) ELSE enhanced

\* mutant: the loop runs over the descriptors last to first
RECURSIVE Reversed(_)
Reversed(seq) == IF seq = <<>> THEN <<>> ELSE Append(Reversed(Tail(seq)), Head(seq))

build_queue_reversed(first_is_title, enhanced) ==
    IF first_is_title THEN Reversed(PyTail(enhanced))
    ELSE Reversed(SelectSeq(enhanced, LAMBDA sd : Get(sd, "type", "None") # "title"))

build_queue(first_is_title, enhanced) ==
    IF first_is_title THEN PyTail(enhanced)
    ELSE SelectSeq(enhanced, LAMBDA sd : Get(sd, "type", "None") # "title")

\* mutant: a failed add_slide is logged and the run goes on
BuildStepIgnoringFailure(has_raised, rest) ==
    IF rest = <<>> THEN "save" ELSE "adding"

\* where the run stands after an add_slide of the build step
build_step_pc(has_raised, rest) ==
    IF has_raised THEN "exit"
    ELSE IF rest = <<>> THEN "save" ELSE "adding"

RunInit ==
    /\ pc = "search"
    /\ slides \in 1..MaxSlidesOpt
    /\ provider = ""
    /\ search_content = <<>>
    /\ presentation_outline = <<>>
    /\ enhanced_slides = <<>>
    /\ queue = <<>>
    /\ path = "none"
    /\ exit_code = -1
    /\ save_calls = 0
    /\ persisted = FALSE
    /\ search_calls = 0
    /\ llm_calls = 0
    /\ presentation = <<>>
    /\ slide_count = 0
    /\ raised = FALSE
    /\ fault = "none"
    /\ last_slide = <<>>
    /\ calls = 0
    /\ written = <<>>
    /\ ExtIdle /\ ValIdle /\ BulIdle /\ HdlIdle /\ ThmIdle /\ OpsIdle

\* What happens inside search_engine.search: no provider is configured, the
\* provider raises (caught inside search), it returns n results, or search
\* itself raises ("crash")
SearchOutcomes ==
    {[kind |-> k] : k \in {"unconfigured", "raise", "crash"}}
    \cup {[kind |-> "results", n |-> n] : n \in 0..MaxResults}

\* the num_results main passes to search
num_results == MaxResults

\* SearchEngine.search: the results it returns (it returns nothing in a crash)
search(outcome, limit) ==
    IF outcome.kind = "results" THEN PyPrefix(SearchResults(outcome.n), limit)
    ELSE <<>>

\* step 1 of main: the results it goes on with
search_results_data(outcome) ==
    IF outcome.kind = "crash" THEN <<>>
    ELSE LET results == search(outcome, num_results)
         IN  IF results = <<>> THEN <<>> ELSE results

\* mutant: a search that raises ends the run
SearchFailureFatal(outcome) ==
    IF outcome.kind = "crash" THEN "exit" ELSE "outline"

\* where the run stands after step 1: the try and the except both go on to
\* step 2
search_step_pc(outcome) == "outline"

\* step 1: the search; a failure is reported and the run goes on without results
Search ==
    /\ pc = "search"
    /\ \E outcome \in SearchOutcomes :
           /\ provider' = outcome
           /\ search_content' = search_results_data(outcome)
           /\ pc' = search_step_pc(outcome)
    /\ search_calls' = search_calls + 1
    /\ UNCHANGED <<slides, presentation_outline, enhanced_slides, queue, path, exit_code,
                   save_calls, persisted, llm_calls, extVars, valVars, hdlVars, thmVars, opsVars, bulVars, bldVars>>

\* step 2, first half: generate_outline, or the except branch
GenerateOutline ==
    /\ pc = "outline"
    /\ llm_calls' = llm_calls + 1
    /\ \E resp \in OutlineResponses :
           LET r == generate_outline(resp)
           IN  IF r.ok
               THEN /\ presentation_outline' = r.value
                    /\ enhanced_slides' = <<>>
                    /\ pc' = "enhance"
                    /\ path' = path
               ELSE Fallback
    /\ UNCHANGED <<slides, provider, search_content, queue, exit_code, save_calls, persisted,
                   search_calls, extVars, valVars, hdlVars, thmVars, opsVars, bulVars, bldVars>>

\* the end of one iteration of the loop over the outline's slides
Advance(enhanced_slide) ==
    /\ enhanced_slides' = Append(enhanced_slides, enhanced_slide)
    /\ presentation_outline' = presentation_outline
    /\ IF Len(enhanced_slides) + 1 = Len(presentation_outline["slides"].v)
       THEN pc' = "build" /\ path' = "normal"
       ELSE pc' = "enhance" /\ path' = path

\* step 2, second half: one iteration of the loop over the outline's slides
EnhanceSlide ==
    /\ pc = "enhance"
    /\ LET i == Len(enhanced_slides) + 1
           slide_info == presentation_outline["slides"].v[i]
       IN  IF slide_info.t # "dict"
           THEN Fallback /\ llm_calls' = llm_calls
           ELSE LET enhanced_slide == EnhancedBase(slide_info.d, i)
                IN  IF Get(slide_info.d, "type", "None") # "title" /\ HasKeyPoints(slide_info.d)
                    THEN /\ llm_calls' = llm_calls + 1
                         /\ \E resp \in SlideContentResponses :
                                LET r == generate_slide_content(resp)
                                IN  IF r.ok THEN Advance(Update(enhanced_slide, r.value))
                                    ELSE Fallback
                    ELSE /\ llm_calls' = llm_calls
                         /\ IF HasKeyPoints(slide_info.d)
                            THEN Advance(Update(enhanced_slide,
                                                [key_points |-> slide_info.d["key_points"]]))
                            ELSE Advance(enhanced_slide)
    /\ UNCHANGED <<slides, provider, search_content, queue, exit_code, save_calls, persisted,
                   search_calls, extVars, valVars, hdlVars, thmVars, opsVars, bulVars, bldVars>>

\* one add_slide of the build step: a raise ends the run with status 1
AddInRun(sd, f, rest) ==
    LET out == add_slide(sd, f)
    IN  /\ presentation' = out.presentation
        /\ slide_count' = out.slide_count
        /\ raised' = out.raised
        /\ fault' = f
        /\ last_slide' = sd
        /\ calls' = calls + 1
        /\ written' = written
        /\ queue' = rest
        /\ pc' = build_step_pc(out.raised, rest)
        /\ exit_code' = IF pc' = "exit" THEN 1 ELSE exit_code

FirstSlide ==
    IF "slides" \in DOMAIN presentation_outline /\ presentation_outline["slides"].v # <<>>
    THEN presentation_outline["slides"].v[1].d
    ELSE <<>>

FirstIsTitle == Get(FirstSlide, "type", "None") = "title"

TitleSlideData ==
    IF FirstIsTitle
    THEN [type |-> "title", title |-> Get(FirstSlide, "title", topic),
          subtitle |-> Get(FirstSlide, "subtitle", "A Comprehensive Overview")]
    ELSE [type |-> "title", title |-> Get(presentation_outline, "title", topic),
          subtitle |-> "A Comprehensive Overview"]

\* step 4: the builder is created and the title slide added
BuildStart ==
    /\ pc = "build"
    /\ \E f \in Faults :
           AddInRun(TitleSlideData, f, build_queue(FirstIsTitle, enhanced_slides))
    /\ UNCHANGED <<slides, provider, search_content, presentation_outline, enhanced_slides, path,
                   save_calls, persisted, search_calls, llm_calls,
                   extVars, valVars, hdlVars, thmVars, opsVars, bulVars>>

\* step 4: the next descriptor of the loop is added
AddNext ==
    /\ pc = "adding"
    /\ queue # <<>>
    /\ \E f \in Faults : AddInRun(Head(queue), f, Tail(queue))
    /\ UNCHANGED <<slides, provider, search_content, presentation_outline, enhanced_slides, path,
                   save_calls, persisted, search_calls, llm_calls,
                   extVars, valVars, hdlVars, thmVars, opsVars, bulVars>>

\* step 5: the output directory is made and builder.save called; "mkdir":
\* main's mkdir raises, "persist": builder.save raises
Save ==
    /\ pc = "save"
    /\ \E f \in SaveFaults :
           /\ save_calls' = IF f = "mkdir" THEN save_calls ELSE save_calls + 1
           /\ persisted' = (f = "none")
           /\ pc' = IF f = "none" THEN "done" ELSE "exit"
           /\ exit_code' = IF f = "none" THEN 0 ELSE 1
           /\ written' = save(f).written
           /\ fault' = f
    /\ UNCHANGED <<slides, provider, search_content, presentation_outline, enhanced_slides, queue,
                   path, search_calls, llm_calls, extVars, valVars, hdlVars, thmVars, opsVars, bulVars,
                   presentation, slide_count, raised, last_slide, calls>>

Next == Search \/ GenerateOutline \/ EnhanceSlide \/ BuildStart \/ AddNext \/ Save

Spec == RunInit /\ [][Next]_vars

(***************************************************************************)
(* Claims about the run                                                    *)
(***************************************************************************)
\* the build step has finished: the deck is assembled
Assembled == pc \in {"save", "done"} \/ (pc = "exit" /\ ~raised)

IsTitleSlide(slide) == slide.routine = "title"

\* C6: every deck assembled by a run holds exactly one title slide, and it
\* is the first slide of the deck.
C6_OneTitleSlideFirst ==
    Assembled =>
        /\ Len(presentation) >= 1
        /\ IsTitleSlide(presentation[1])
        /\ \A i \in 2..Len(presentation) : ~IsTitleSlide(presentation[i])

\* the run is past the title slide of an outline whose first slide is not
\* tagged title
BuiltWithoutTitleFirst == calls >= 1 /\ pc # "idle" /\ ~FirstIsTitle

\* C7: for a deck assembled from an outline whose first slide is not tagged
\* title, the first slide of the deck is a title slide synthesized from the
\* outline's top-level title (or the topic), no title slide follows it, and
\* every title-tagged entry is skipped: the rest of the deck is the
\* entries that are not tagged title, in order.
C7_SynthesizedTitleNoDuplicate ==
    BuiltWithoutTitleFirst =>
        /\ \A i \in 1..Len(presentation) : IsTitleSlide(presentation[i]) <=> i = 1
        /\ Len(presentation) >= 1 =>
               /\ presentation[1].title = Get(presentation_outline, "title", topic)
               /\ presentation[1].body = <<"A Comprehensive Overview">>
        /\ Assembled =>
               /\ Len(presentation) >= 1
               /\ Len(presentation) - 1 =
                      Cardinality({i \in 1..Len(enhanced_slides) :
                                      enhanced_slides[i]["type"] # "title"})

\* a deck was saved whose outline began with a content slide and held a
\* title-tagged entry later
C7_Witness ==
    /\ pc = "done"
    /\ ~FirstIsTitle
    /\ \E i \in 2..Len(enhanced_slides) : enhanced_slides[i]["type"] = "title"
    /\ Len(presentation) = 2

\* C10: once an add_slide of the build step has raised, the run has ended
\* with status 1, save was never called and nothing more happens to the
\* deck; a run whose save raised ends with status 1; success (status 0) is
\* reported only after the file was written.
C10_FatalBackendFailure ==
    /\ [](raised => pc = "exit" /\ exit_code = 1 /\ save_calls = 0 /\ ~persisted)
    /\ [](pc = "exit" => exit_code = 1 /\ ~persisted)
    /\ [](exit_code = 0 => pc = "done" /\ persisted /\ ~raised /\ save_calls = 1)
    /\ [][pc = "exit" => UNCHANGED <<pc, presentation, slide_count, save_calls, exit_code>>]_vars

\* the second add_slide of a run raised after its slide reached the backend
C10_Witness ==
    /\ pc = "exit"
    /\ raised
    /\ fault = "fill"
    /\ Len(presentation) = 2
    /\ slide_count = 1
    /\ save_calls = 0

\* within one run of main the builder is saved at most once, after the
\* last add_slide, and nothing follows the save
RunSavesOnceAndLast ==
    /\ save_calls <= 1 /\ Len(written) <= 1
    /\ (written # <<>> => pc = "done" /\ written[1] = presentation)

\* C12: a failure of the generator at the outline step or at a per-slide
\* step (it raises, returns nothing decodable, or returns a payload the
\* validator rejects) does not end the run: the step hands over to the build
\* step with the fallback outline; and a run on the fallback path ends in
\* error only when a backend call failed, otherwise it goes on to a saved
\* deck whose first slide is a title slide.
C12_FallbackBuildsDeck ==
    /\ [][(pc = "outline" \/ pc = "enhance")
          => /\ pc' \in {"enhance", "build"}
             /\ exit_code' = -1
             /\ (path' = "fallback"
                 => pc' = "build" /\ presentation_outline' = FallbackOutline)]_vars
    /\ [](path = "fallback"
          => /\ (pc = "exit" => fault # "none")
             /\ (pc = "done"
                 => /\ persisted /\ written = <<presentation>>
                    /\ Len(presentation) >= 1
                    /\ IsTitleSlide(presentation[1])
                    /\ presentation[1].title = topic)
             /\ (pc \notin {"exit", "done"} => ENABLED Next))

C12_Witness ==
    /\ path = "fallback" /\ pc = "done" /\ llm_calls >= 2
    /\ Len(presentation) >= 2

\* C13: every slide descriptor that reaches builder.add_slide in a run, on
\* the normal path and on the fallback path alike, carries the required
\* fields slide_number, title and type.
C13_RequiredFieldsReachBuilder ==
    (pc # "idle" /\ calls >= 1) => Range(slide_keys) \subseteq DOMAIN last_slide

GeneratedEntries(outline, n) ==
    {i \in 1..n :
        LET e == outline["slides"].v[i]
        IN  /\ e.t = "dict"
            /\ Get(e.d, "type", "None") # "title"
            /\ "key_points" \in DOMAIN e.d /\ Truthy(e.d["key_points"])}

NoResults(outcome) ==
    outcome.kind \in {"unconfigured", "raise", "crash"}
    \/ (outcome.kind = "results" /\ outcome.n = 0)

Searched == pc \notin {"idle", "search"}

\* C16: when the search returns nothing (empty result, or the provider or the
\* search fails), step 1 hands over to outline generation with an empty
\* search context and without an exit status; and such a run ends in error
\* only when a backend call failed, otherwise it can always go on.
C16_EmptySearchIsNoContext ==
    /\ [][(pc = "search")
          => /\ pc' = "outline"
             /\ exit_code' = -1
             /\ (NoResults(provider') => search_content' = <<>>)]_vars
    /\ []((Searched /\ NoResults(provider))
          => /\ search_content = <<>>
             /\ (pc = "exit" => fault # "none")
             /\ (pc \notin {"exit", "done"} => ENABLED Next))

\* a run whose provider or search failed and that still wrote a deck from a
\* generated outline
C16_Witness ==
    /\ pc = "done" /\ persisted
    /\ provider.kind \in {"raise", "crash"}
    /\ path = "normal" /\ Len(presentation) >= 2

\* the slide is what add_slide builds from the descriptor (finished or not)
BuiltFrom(sd, slide) == [slide EXCEPT !.complete = TRUE] = Construct(sd)

\* C19: the slides are appended in outline order: after the title slide the
\* deck's slides are built from descriptors of enhanced_slides at strictly
\* increasing positions, and every slide but the last is finished (no
\* backend operation for a slide begins before those of the slide before
\* it have ended).
C19_OutlineOrder ==
    (pc # "idle" /\ calls >= 1) =>
        /\ \A j \in 1..(Len(presentation) - 1) : presentation[j].complete
        /\ Len(presentation) >= 1 => BuiltFrom(TitleSlideData, presentation[1])
        /\ \E f \in [2..Len(presentation) -> 1..Len(enhanced_slides)] :
               /\ \A j, k \in 2..Len(presentation) : j < k => f[j] < f[k]
               /\ \A j \in 2..Len(presentation) :
                      BuiltFrom(enhanced_slides[f[j]], presentation[j])

\* a saved deck whose second and third slides differ and follow the order
\* of their descriptors
C19_Witness ==
    /\ pc = "done" /\ Len(presentation) = 3
    /\ presentation[2] # presentation[3]
    /\ BuiltFrom(enhanced_slides[Len(enhanced_slides) - 1], presentation[2])
    /\ BuiltFrom(enhanced_slides[Len(enhanced_slides)], presentation[3])

\* C24: on the fallback path the assembled deck is the title slide built
\* from the topic followed by one content slide for each of the first
\* slides-1 search results, in search order, none omitted and none twice.
C24_FallbackDeckHasEveryResult ==
    (path = "fallback" /\ pc \in {"save", "done"}) =>
        LET results == FallbackSlides(search_content, slides)
        IN  /\ Len(presentation) = 1 + Len(results)
            /\ IsTitleSlide(presentation[1]) /\ presentation[1].title = topic
            /\ \A i \in 1..Len(results) : presentation[i + 1] = Construct(results[i])

\* C24, what the build step does on the fallback path: the content slide of
\* the first search result is skipped, the others follow the title slide
C24_FallbackDeckSkipsFirstResult ==
    (path = "fallback" /\ pc \in {"save", "done"}) =>
        LET results == FallbackSlides(search_content, slides)
        IN  /\ Len(presentation) = (IF results = <<>> THEN 1 ELSE Len(results))
            /\ IsTitleSlide(presentation[1]) /\ presentation[1].title = topic
            /\ \A i \in 2..Len(results) : presentation[i] = Construct(results[i])

\* C26: every descriptor main has prepared on the normal path, merged with
\* a generated slide-content payload or not, has the type tag and the
\* slide_number of its outline entry.
C26_MergeKeepsTypeAndNumber ==
    (pc \in {"enhance", "build", "adding", "save", "done", "exit"} /\ path # "fallback") =>
        \A i \in 1..Len(enhanced_slides) :
            LET slide_info == presentation_outline["slides"].v[i].d
            IN  /\ enhanced_slides[i].type = Get(slide_info, "type", "content")
                /\ enhanced_slides[i].slide_number = Get(slide_info, "slide_number", i)

(***************************************************************************)
(* The generator's operations on a response text (llm_handler.py)          *)
(*                                                                         *)
(* A response text is a sequence of tokens: the braces, which the          *)
(* extractor counts, a blank, and letters that stand for the stretches of  *)
(* text between braces.                                                    *)
(***************************************************************************)
\* {"title": "O", "slides": [{"slide_number": 1, "title": "S", "type": "content"}]}
OutlineText == <<"{", "o", "{", "s", "}", "e", "}">>
\* {"title": "O", "slides": []}
EmptySlidesText == <<"{", "n", "}">>
\* {"title": "G", "bullet_points": [...]}
SlideContentText == <<"{", "g", "}">>
\* {"title": "G"}
TitleOnlyText == <<"{", "t", "}">>

\* texts without a brace that are JSON all the same:
\* ["title", "slides", "bullet_points"]
ListText == <<"l">>
\* "title slides bullet_points"
StringText == <<"q">>
\* 7
NumberText == <<"7">>

\* json.loads: the payload ("json") or the value that is not an object
\* ("value") of the texts above, JSONDecodeError ("text") for every other
\* text of the model
json_loads(text) ==
    IF text = OutlineText
    THEN [kind |-> "json",
          p |-> [title |-> "O",
                 slides |-> ListV(<<Elem([slide_number |-> 1, title |-> "S",
                                          type |-> "content"])>>)]]
    ELSE IF text = EmptySlidesText
    THEN [kind |-> "json", p |-> [title |-> "O", slides |-> ListV(<<>>)]]
    ELSE IF text = SlideContentText
    THEN [kind |-> "json", p |-> [title |-> "G", bullet_points |-> GeneratedBullets]]
    ELSE IF text = TitleOnlyText
    THEN [kind |-> "json", p |-> [title |-> "G"]]
    ELSE IF text = ListText
    THEN [kind |-> "value", x |-> ListV(<<"title", "slides", "bullet_points">>)]
    ELSE IF text = StringText
    THEN [kind |-> "value", x |-> [t |-> "str", has |-> {"title", "slides", "bullet_points"}]]
    ELSE IF text = NumberText
    THEN [kind |-> "value", x |-> [t |-> "num", v |-> 7]]
    ELSE [kind |-> "text"]

\* str.strip() on a token sequence
RECURSIVE TextStrip(_)
TextStrip(text) ==
    IF text = <<>> THEN text
    ELSE IF Head(text) = " " THEN TextStrip(Tail(text))
    ELSE IF text[Len(text)] = " " THEN TextStrip(SubSeq(text, 1, Len(text) - 1))
    ELSE text

\* what client.generate_content does: it raises, or answers with a text
Prefixes == {<<>>, <<" ">>, <<"x">>, <<"{", "x", "}">>}
Bodies == {OutlineText, EmptySlidesText, SlideContentText, TitleOnlyText,
           ListText, StringText, NumberText, <<"x">>, <<"{", "g">>, <<>>}
Suffixes == {<<>>, <<"x">>}

HandlerResponses ==
    {[kind |-> "raise"]}
    \cup {[kind |-> "text", text |-> pre \o body \o post] :
              pre \in Prefixes, body \in Bodies, post \in Suffixes}

\* the part of generate_outline and generate_slide_content before the validator
decoded_response(resp) ==
    IF resp.kind = "raise" THEN resp
    ELSE json_loads(extract_json_from_response(TextStrip(resp.text)))

\* where a failed call failed: the collaborator raised, json.loads raised
\* JSONDecodeError, or the validator returned False or raised
failure_stage(decoded) ==
    CASE decoded.kind = "raise" -> "collaborator"
      [] decoded.kind = "text" -> "decode"
      [] OTHER -> "validate"

\* the exception a failed call leaves by names that stage
Raising(r, decoded) ==
    IF r.ok THEN r ELSE [ok |-> FALSE, stage |-> failure_stage(decoded)]

Payload(r) == IF r.ok THEN [ok |-> TRUE, kind |-> "payload", value |-> r.value] ELSE r

\* the content argument of refine_content
original_content == <<"c">>

refine_content(content, resp) ==
    IF resp.kind = "raise" THEN [ok |-> TRUE, kind |-> "text", value |-> content]
    ELSE [ok |-> TRUE, kind |-> "text", value |-> TextStrip(resp.text)]

HandlerOperations == {"generate_outline", "generate_slide_content", "refine_content"}

HdlInit ==
    /\ operation \in HandlerOperations
    /\ response \in HandlerResponses
    /\ returned = ""
    /\ hpc = "start"
    /\ ExtIdle /\ ValIdle /\ BulIdle /\ BldIdle /\ RunIdle /\ ThmIdle /\ OpsIdle

Call ==
    /\ hpc = "start"
    /\ returned' =
           CASE operation = "generate_outline" ->
                    Payload(Raising(generate_outline(decoded_response(response)),
                                    decoded_response(response)))
             [] operation = "generate_slide_content" ->
                    Payload(Raising(generate_slide_content(decoded_response(response)),
                                    decoded_response(response)))
             [] operation = "refine_content" ->
                    refine_content(original_content, response)
    /\ hpc' = "done"
    /\ UNCHANGED <<operation, response, extVars, valVars, bulVars, bldVars, runVars, thmVars, opsVars>>

HdlNext == Call

SpecHandler == HdlInit /\ [][HdlNext]_vars

(***************************************************************************)
(* Claims about the generator's operations                                 *)
(***************************************************************************)
\* the payload p passes the validator of the operation (either validator,
\* for an operation that has none of its own)
SchemaValid(op, p) ==
    CASE op = "generate_outline" -> validate_outline_structure(p) = "True"
      [] op = "generate_slide_content" -> validate_slide_content_structure(p) = "True"
      [] OTHER -> \/ validate_outline_structure(p) = "True"
                  \/ validate_slide_content_structure(p) = "True"

\* ret is the payload decoded from the extracted object of the response
\* text, and a validator accepted it
ExtractedAndValidated(op, resp, ret) ==
    /\ ret.kind = "payload"
    /\ LET r == json_loads(extract_json_from_response(TextStrip(resp.text)))
       IN  r.kind = "json" /\ ret.value = r.p /\ SchemaValid(op, r.p)

\* C14 (as stated): whatever generate_outline, generate_slide_content or
\* refine_content returns from an answer of the collaborator has been passed
\* through _extract_json_from_response and then accepted by a validator.
C14_EveryOperationValidates ==
    (hpc = "done" /\ response.kind = "text" /\ returned.ok)
        => ExtractedAndValidated(operation, response, returned)

\* C14 (amended): generate_outline and generate_slide_content return
\* exactly when the object extracted from the answer decodes to a payload
\* their validator accepts, and return that payload (they raise
\* otherwise); refine_content returns the stripped answer as it is, or its
\* own content argument when the collaborator raises.
C14_GeneratorsValidate ==
    hpc = "done" =>
        IF operation = "refine_content"
        THEN /\ returned.ok /\ returned.kind = "text"
             /\ returned.value = IF response.kind = "raise" THEN original_content
                                 ELSE TextStrip(response.text)
        ELSE /\ returned.ok => /\ response.kind = "text"
                               /\ ExtractedAndValidated(operation, response, returned)
             /\ ~returned.ok =>
                    \/ response.kind = "raise"
                    \/ LET r == json_loads(extract_json_from_response(
                                                TextStrip(response.text)))
                       IN  r.kind # "json" \/ ~SchemaValid(operation, r.p)

\* an outline wrapped in prose was extracted, decoded, validated and returned
C14_Witness ==
    /\ hpc = "done" /\ operation = "generate_outline"
    /\ response.kind = "text" /\ response.text = <<"x">> \o OutlineText \o <<"x">>
    /\ returned.ok /\ returned.value = json_loads(OutlineText).p

\* a generator method has answered a collaborator text without an opening brace
NoOpeningBrace(text) == \A i \in 1..Len(text) : text[i] # "{"

BraceLessCall ==
    /\ hpc = "done"
    /\ operation \in {"generate_outline", "generate_slide_content"}
    /\ response.kind = "text"
    /\ NoOpeningBrace(TextStrip(response.text))

\* C21 (as stated): for a text without an opening brace the extractor
\* returns the text unchanged and the failure surfaces at the decode stage:
\* generate_outline and generate_slide_content raise from json.loads and
\* return no payload.
C21_FailsAtDecode ==
    BraceLessCall
        => /\ extract_json_from_response(TextStrip(response.text))
                  = TextStrip(response.text)
           /\ ~returned.ok
           /\ returned.stage = "decode"

\* C21 (amended): for a text without an opening brace the extractor returns
\* the text unchanged, and generate_outline and generate_slide_content raise
\* and return no payload; the failure surfaces at the decode stage unless
\* the text is itself JSON (a list, a string, a number), and then at the
\* validator.
C21_BraceLessNeverReturned ==
    BraceLessCall
        => /\ extract_json_from_response(TextStrip(response.text))
                  = TextStrip(response.text)
           /\ ~returned.ok
           /\ returned.stage =
                  (IF json_loads(TextStrip(response.text)).kind = "text"
                   THEN "decode" ELSE "validate")

\* generate_slide_content was answered with a JSON list that holds the
\* required keys, and raised from its validator
C21_Witness ==
    /\ BraceLessCall
    /\ operation = "generate_slide_content"
    /\ TextStrip(response.text) = ListText
    /\ ~returned.ok /\ returned.stage = "validate"

(***************************************************************************)
(* Theme (slide_templates.py): colors, fonts, layouts and the formatting   *)
(* routines.  A routine's result is the list of property assignments it    *)
(* makes on the shape or paragraph it is given; lengths are in EMU.        *)
(***************************************************************************)
MaxResolves == 2     \* calls made on one Theme
MaxParagraphs == 2   \* most paragraphs in a shape's text frame

EmuPerPt == 12700
EmuPerInch == 914400
Pt(points) == points * EmuPerPt
\* Inches(0.1), the only fractional length the routines use
InchesTenths(tenths) == (tenths * EmuPerInch) \div 10

ThemeColors ==
    [primary |-> <<68, 114, 196>>, secondary |-> <<112, 173, 71>>, accent |-> <<255, 192, 0>>,
     text_dark |-> <<68, 68, 68>>, text_light |-> <<255, 255, 255>>,
     background |-> <<255, 255, 255>>]

get_rgb_color(colors, color_name) ==
    IF color_name \in DOMAIN colors THEN colors[color_name] ELSE colors.primary

ThemeFonts ==
    [title_font |-> "Calibri", body_font |-> "Calibri", title_size |-> 44,
     subtitle_size |-> 32, body_size |-> 18, bullet_size |-> 16]

Theme(name, colors, fonts) ==
    [name |-> name, colors |-> colors, fonts |-> fonts, layouts |-> layouts]

ModernTheme == Theme("Modern", ThemeColors, ThemeFonts)

CorporateTheme ==
    Theme("Corporate",
          [ThemeColors EXCEPT !.primary = <<54, 96, 146>>, !.secondary = <<149, 179, 215>>,
                              !.accent = <<180, 198, 231>>, !.text_dark = <<47, 47, 47>>],
          [ThemeFonts EXCEPT !.title_font = "Segoe UI", !.body_font = "Segoe UI"])

MinimalistTheme ==
    Theme("Minimalist",
          [ThemeColors EXCEPT !.primary = <<0, 0, 0>>, !.secondary = <<128, 128, 128>>,
                              !.accent = <<255, 87, 51>>, !.text_dark = <<51, 51, 51>>],
          [ThemeFonts EXCEPT !.title_font = "Arial", !.body_font = "Arial", !.title_size = 36,
                             !.subtitle_size = 24, !.body_size = 16])

AVAILABLE_THEMES == {ModernTheme, CorporateTheme, MinimalistTheme}

\* Theme.get_layout: the lookup in the Theme's own layouts
theme_get_layout(self, layout_type) ==
    IF layout_type \in DOMAIN self.layouts
    THEN [ok |-> TRUE, layout |-> self.layouts[layout_type]]
    ELSE [ok |-> FALSE, error |-> "ValueError"]

apply_title_formatting(self, title_shape) ==
    IF ~title_shape.has_text_frame THEN <<>>
    ELSE [i \in 1..title_shape.paragraphs |->
            [alignment |-> "CENTER", name |-> self.fonts.title_font,
             size |-> Pt(self.fonts.title_size),
             rgb |-> get_rgb_color(self.colors, "text_dark"), bold |-> TRUE]]

apply_subtitle_formatting(self, subtitle_shape) ==
    IF ~subtitle_shape.has_text_frame THEN <<>>
    ELSE [i \in 1..subtitle_shape.paragraphs |->
            [alignment |-> "CENTER", name |-> self.fonts.body_font,
             size |-> Pt(self.fonts.subtitle_size),
             rgb |-> get_rgb_color(self.colors, "text_dark")]]

apply_body_formatting(self, body_shape) ==
    IF ~body_shape.has_text_frame THEN <<>>
    ELSE <<[margin_left |-> InchesTenths(1), margin_right |-> InchesTenths(1),
            margin_top |-> InchesTenths(1), margin_bottom |-> InchesTenths(1),
            word_wrap |-> TRUE]>>
         \o [i \in 1..body_shape.paragraphs |->
               [name |-> self.fonts.body_font, size |-> Pt(self.fonts.body_size),
                rgb |-> get_rgb_color(self.colors, "text_dark")]]

\* a routine that fits the text by shrinking it a little more on every call
ApplyBulletFormattingShrinking(self, level) ==
    <<[level |-> level, name |-> self.fonts.body_font, size |-> Pt(13 - resolves),
       rgb |-> get_rgb_color(self.colors, "text_dark"),
       space_after |-> Pt(4), space_before |-> Pt(0), word_wrap |-> TRUE]>>

apply_bullet_formatting(self, level) ==
    <<[level |-> level, name |-> self.fonts.body_font, size |-> Pt(13),
       rgb |-> get_rgb_color(self.colors, "text_dark"),
       space_after |-> Pt(4), space_before |-> Pt(0), word_wrap |-> TRUE]>>

\* the shapes the routines are given: without a text frame, or with 0.. paragraphs
Shapes ==
    {[has_text_frame |-> FALSE, paragraphs |-> 0]}
        \cup {[has_text_frame |-> TRUE, paragraphs |-> n] : n \in 0..MaxParagraphs}

LayoutTypes == DOMAIN layouts \cup {"conclusion"}

Requests ==
    {[routine |-> "get_layout", arg |-> t] : t \in LayoutTypes}
        \cup {[routine |-> r, arg |-> sh] :
                r \in {"apply_title_formatting", "apply_subtitle_formatting",
                       "apply_body_formatting"}, sh \in Shapes}
        \cup {[routine |-> "apply_bullet_formatting", arg |-> level] : level \in 0..1}

\* what one call on the Theme gives its caller or issues to the backend
Resolve(self, req) ==
    CASE req.routine = "get_layout" -> theme_get_layout(self, req.arg)
      [] req.routine = "apply_title_formatting" -> apply_title_formatting(self, req.arg)
      [] req.routine = "apply_subtitle_formatting" -> apply_subtitle_formatting(self, req.arg)
      [] req.routine = "apply_body_formatting" -> apply_body_formatting(self, req.arg)
      [] OTHER -> apply_bullet_formatting(self, req.arg)

ThmInit ==
    /\ theme \in AVAILABLE_THEMES
    /\ issued = <<>> /\ resolved = <<>> /\ resolves = 0
    /\ ExtIdle /\ ValIdle /\ BulIdle /\ BldIdle /\ RunIdle /\ HdlIdle /\ OpsIdle

\* one call of get_layout or of an apply_*_formatting routine; none assigns to the Theme
ResolveCall ==
    /\ resolves < MaxResolves
    /\ \E req \in Requests :
         LET out == Resolve(theme, req)
         IN  /\ resolved' = [req |-> req, out |-> out]
             /\ issued' = IF req \in DOMAIN issued THEN issued
                          ELSE [q \in DOMAIN issued \cup {req} |->
                                  IF q = req THEN [out |-> out, theme |-> theme]
                                  ELSE issued[q]]
    /\ resolves' = resolves + 1
    /\ UNCHANGED <<theme, extVars, valVars, bulVars, bldVars, runVars, hdlVars, opsVars>>

ThmNext == ResolveCall

SpecTheme == ThmInit /\ [][ThmNext]_vars

Op(kind, idx, par, by) == [op |-> kind, idx |-> idx, par |-> par, by |-> by]

\* the loop of _add_bullet_points: entry i writes paragraph 0 when i = 0 and
\* a new paragraph otherwise; a blank entry writes nothing
RECURSIVE BulletOps(_, _, _, _)
BulletOps(idx, bullet_points, i, paragraphs) ==
    IF i >= Len(bullet_points) THEN <<>>
    ELSE IF Strip(bullet_points[i + 1]) = ""
    THEN BulletOps(idx, bullet_points, i + 1, paragraphs)
    ELSE LET p == IF i = 0 THEN 0 ELSE paragraphs
         IN  <<Op("setText", idx, p, "_add_bullet_points"),
               Op("applyFormatting", idx, p, "apply_bullet_formatting")>>
             \o BulletOps(idx, bullet_points, i + 1, IF i = 0 THEN paragraphs ELSE paragraphs + 1)

add_bullet_points_ops(idx, bullet_points) ==
    <<Op("clear", idx, -1, "_add_bullet_points"),
      Op("applyFormatting", idx, -1, "_add_bullet_points")>>
    \o BulletOps(idx, bullet_points, 0, 1)

add_single_content_ops(idx) ==
    <<Op("clear", idx, -1, "_add_single_content_slide_content"),
      Op("applyFormatting", idx, -1, "_add_single_content_slide_content"),
      Op("setText", idx, -1, "_add_single_content_slide_content"),
      Op("applyFormatting", idx, -1, "apply_body_formatting")>>

add_title_slide_ops(sd) ==
    LET layout == get_layout("title").layout
    IN  <<Op("createSlide", layout.layout_id, -1, "_add_title_slide"),
          Op("setText", layout.title_placeholder_idx, -1, "_add_title_slide"),
          Op("applyFormatting", layout.title_placeholder_idx, -1, "apply_title_formatting"),
          Op("setText", layout.content_placeholder_idx, -1, "_add_title_slide"),
          Op("applyFormatting", layout.content_placeholder_idx, -1,
             "apply_subtitle_formatting")>>

add_content_slide_ops(sd) ==
    LET layout == get_layout("content").layout
        bullet_points == extract_bullet_points(sd)
    IN  <<Op("createSlide", layout.layout_id, -1, "_add_content_slide"),
          Op("setText", layout.title_placeholder_idx, -1, "_add_content_slide"),
          Op("applyFormatting", layout.title_placeholder_idx, -1, "apply_title_formatting")>>
        \o (IF bullet_points # <<>>
            THEN add_bullet_points_ops(layout.content_placeholder_idx, bullet_points)
                 \o <<Op("applyFormatting", layout.content_placeholder_idx, -1,
                         "apply_body_formatting")>>
            ELSE add_single_content_ops(layout.content_placeholder_idx))

add_section_header_slide_ops(sd) ==
    LET layout == get_layout("section_header").layout
    IN  <<Op("createSlide", layout.layout_id, -1, "_add_section_header_slide"),
          Op("setText", layout.title_placeholder_idx, -1, "_add_section_header_slide"),
          Op("applyFormatting", layout.title_placeholder_idx, -1, "apply_title_formatting")>>

\* the dispatch of add_slide on the type tag
ConstructOps(sd) ==
    LET slide_type == Get(sd, "type", "content")
    IN  IF slide_type = "title" THEN add_title_slide_ops(sd)
        ELSE IF slide_type = "content" THEN add_content_slide_ops(sd)
        ELSE IF slide_type = "section_header" THEN add_section_header_slide_ops(sd)
        ELSE add_content_slide_ops(sd)

\* the descriptors built: type and title plain strings, the rest JSON values
TracedBullets ==
    {Absent, ListV(<<>>), ListV(<<StrV("B")>>), ListV(<<StrV(" ")>>),
     ListV(<<StrV(" "), StrV("B")>>), ListV(<<StrV("B"), StrV("S")>>)}

TracedSlides ==
    {[k \in DOMAIN d |-> IF k \in {"type", "title"} THEN d[k].v ELSE d[k]] :
        d \in {MkDict(<<"type", "title", "bullet_points", "content">>, <<ty, ti, bp, ct>>) :
                 ty \in {StrV(x) : x \in KnownTypes \cup {"timeline"}} \cup {Absent},
                 ti \in {StrV("T"), Absent},
                 bp \in TracedBullets,
                 ct \in {Absent, StrV("snippet")}}}

OpsInit ==
    /\ building \in TracedSlides
    /\ ops = <<>>
    /\ pending = ConstructOps(building)
    /\ spc = "building"
    /\ ExtIdle /\ ValIdle /\ BulIdle /\ BldIdle /\ RunIdle /\ HdlIdle /\ ThmIdle

\* the backend serves the next operation of the routine
IssueOp ==
    /\ spc = "building" /\ pending # <<>>
    /\ ops' = Append(ops, Head(pending))
    /\ pending' = Tail(pending)
    /\ spc' = IF Tail(pending) = <<>> THEN "done" ELSE "building"
    /\ UNCHANGED <<building, extVars, valVars, bulVars, bldVars, runVars, hdlVars, thmVars>>

\* the backend raises in the next operation: the routine is abandoned
BackendRaises ==
    /\ spc = "building" /\ pending # <<>>
    /\ spc' = "raised"
    /\ pending' = <<>>
    /\ UNCHANGED <<building, ops, extVars, valVars, bulVars, bldVars, runVars, hdlVars, thmVars>>

OpsNext == IssueOp \/ BackendRaises

SpecOps == OpsInit /\ [][OpsNext]_vars

(***************************************************************************)
(* Claims about the backend operations                                     *)
(***************************************************************************)
CreateSlideFirst ==
    \A j \in 1..Len(ops) : ops[j].op = "createSlide" <=> j = 1

TextSetBefore(j) ==
    \E i \in 1..(j - 1) : ops[i].op = "setText" /\ ops[i].idx = ops[j].idx

SectionHeaderLeavesContentAlone ==
    Get(building, "type", "content") = "section_header" =>
        \A j \in 2..Len(ops) : ops[j].idx = layouts.section_header.title_placeholder_idx

\* C23: of the operations the backend has seen for a slide, createSlide is
\* the first and the only one of its kind, every applyFormatting on a
\* placeholder comes after a setText on that placeholder, and a
\* section_header slide has operations on its title placeholder only.
C23_TextBeforeFormatting ==
    /\ CreateSlideFirst
    /\ \A j \in 1..Len(ops) : ops[j].op = "applyFormatting" => TextSetBefore(j)
    /\ SectionHeaderLeavesContentAlone

\* the formatting routines of the Theme, as distinct from the property
\* assignments the construction routines make themselves
ThemeRoutines ==
    {"apply_title_formatting", "apply_subtitle_formatting", "apply_body_formatting",
     "apply_bullet_formatting"}

\* C23, the ordering of the Theme's routines only: no apply_*_formatting call
\* reaches a placeholder before a text assignment to it
C23_ThemeFormattingAfterText ==
    \A j \in 1..Len(ops) :
        ops[j].op = "applyFormatting" /\ ops[j].by \in ThemeRoutines => TextSetBefore(j)

\* C23, the parts the code keeps
C23_CreateFirstAndSectionHeader == CreateSlideFirst /\ SectionHeaderLeavesContentAlone

====
